---- MODULE Spec2Model ----
(***************************************************************************)
(* expo-finance-kit: the transaction change relay.                         *)
(*                                                                         *)
(* Native side (ios/ExpoFinanceKitModule.swift): the TransactionMonitor    *)
(* singleton with its live per-account monitoring tasks, the background    *)
(* sync that stores change batches as pending files, and the drain that    *)
(* reads the pending files back and emits them to JS.                      *)
(* JS side (src/helpers.ts, src/modules/*.ts): the authorization-gated     *)
(* wrappers around the native module.                                      *)
(*                                                                         *)
(* Synchronous stretches of code between two suspension points are one     *)
(* action; every `await`, every `Task { }` and every                       *)
(* `DispatchQueue.main.async` is a point where other actions interleave.   *)
(***************************************************************************)
EXTENDS Integers, Sequences, FiniteSets, TLC

\* ------------------------------------------------------------------ bounds
MaxHistory == 1     \* change batches the native store reports per account
MaxStarts == 2      \* calls of startMonitoringTransactions in one behaviour
MaxIds == 2         \* length of an accountIds argument
MaxClock == 1       \* distinct readings of Date() after the first
MaxSyncRuns == 2    \* runs of the background sync handler in one behaviour
MaxRelayStarts == 1 \* startMonitoringTransactions calls while the relay is observed
MaxSignals == 1     \* store-changed callbacks the extension receives
MaxLog == 2         \* batches an account's history holds when the app starts
MaxListeners == 2   \* addTransactionChangeListener calls in one behaviour

\* ------------------------------------------------------------- the universe
Accounts == {"A1", "A2"}
BadId == "not-a-uuid"
Ids == Accounts \cup {BadId}
AllAccountIds == <<"A1", "A2">>
Nil == "nil"

RECURSIVE SeqsUpTo(_, _)
SeqsUpTo(S, n) ==
  IF n = 0 THEN {<<>>}
  ELSE LET shorter == SeqsUpTo(S, n - 1)
       IN shorter \cup {Append(s, x) : s \in {t \in shorter : Len(t) = n - 1}, x \in S}

IdLists == SeqsUpTo(Ids, MaxIds)

\* The change batches the native stream can yield (TransactionChangePayload).
Changes ==
  { [inserted |-> <<"tx1">>, updated |-> <<"tx2">>, deleted |-> <<"tx3">>],
    [inserted |-> <<>>, updated |-> <<>>, deleted |-> <<>>] }

AuthStatuses == {"notDetermined", "denied", "authorized", "unavailable"}

\* Identifiers are sequences of their dot-separated components.
MainBundleId == <<"com", "example", "app">>
ExtensionBundleId == MainBundleId \o <<"background-extension">>

VARIABLES
  authStatus,       \* FinanceStore.shared.authorizationStatus()
  history,          \* native change log of each account (FinanceKit's own state)
  now,              \* the reading of Date()
  module,           \* TransactionMonitor.module is set (weak var, nil at first)
  tasks,            \* every Task started by startMonitoringForAccounts
  monitoringTasks,  \* TransactionMonitor.monitoringTasks: account -> task (0: none)
  pendingStarts,    \* all-accounts starts whose accounts query has not returned
  mainQueue,        \* blocks queued by DispatchQueue.main.async { sendEvent }
  jsEvents,         \* events handed to JS by module.sendEvent, in order
  files,            \* pending_changes: file name -> contents
  syncs,            \* runs of handleBackgroundSync
  session,          \* number of startMonitoring calls so far
  lastCall,         \* the last of start / stop that returned
  requested,        \* accounts the last start asked for
  stored,           \* batches written by storeChangeForLater
  js,               \* the call of a JS wrapper in progress, or the last one
  runtime,          \* Platform.OS and whether requireNativeModule found the module
  scheduler,        \* BGTaskScheduler: the pending request and the submit calls
  extension,        \* the background delivery extension's position
  darwin,           \* Darwin notifications posted and not yet delivered
  shared,           \* marker files of the extension in the app group container
  appGroups,        \* app groups whose container resolves (entitlements)
  userDefaults,     \* UserDefaults.standard: the keys that are set
  cleared,          \* per account: what had been fetched when its token was cleared
  isMonitoring,     \* the JS TransactionMonitor's isMonitoring flag
  emitter,          \* the NativeEventEmitter: its subscriptions, the events dispatched
  retry,            \* the call of ErrorRecovery.retry in progress, or the last one
  appGroupIdentifier, \* TransactionMonitor.appGroupIdentifier (nil at first)
  otherFiles        \* pending_changes in the container of the other app group

monVars == <<tasks, monitoringTasks, pendingStarts, session, lastCall, requested>>
evVars == <<mainQueue, jsEvents>>
storeVars == <<files, otherFiles, syncs, stored>>
modVars == <<module, appGroupIdentifier>>
envVars == <<authStatus, history, now>>
jsVars == <<js, runtime, isMonitoring>>
bgVars == <<scheduler, extension, darwin, shared, appGroups>>
tokVars == <<userDefaults, cleared>>
extVars == <<tokVars, emitter, retry>>
vars == <<authStatus, history, now, module, tasks, monitoringTasks, pendingStarts,
          mainQueue, jsEvents, files, syncs, session, lastCall, requested, stored,
          js, runtime, scheduler, extension, darwin, shared, appGroups,
          userDefaults, cleared, isMonitoring, emitter, retry, appGroupIdentifier,
          otherFiles>>

\* ------------------------------------------------------------ pure helpers

\* UUID(uuidString:) succeeds
IsUUID(id) == id \in Accounts

\* accountIds?.compactMap { UUID(uuidString: $0) } ?? []
CompactMapUUID(ids) == SelectSeq(ids, IsUUID)

Range(s) == {s[i] : i \in DOMAIN s}

\* The dictionary has a key for a list only when the list is not empty.
ConvertTransactionChangeToDict(change, accountId, t) ==
  ("accountId" :> accountId) @@ ("timestamp" :> t * 1000)
    @@ (IF change.inserted # <<>> THEN ("inserted" :> change.inserted) ELSE <<>>)
    @@ (IF change.updated # <<>> THEN ("updated" :> change.updated) ELSE <<>>)
    @@ (IF change.deleted # <<>> THEN ("deleted" :> change.deleted) ELSE <<>>)

\* An event on its way to JS: the payload, and where it came from.
Event(src, accountId, idx, sess, task, data) ==
  [src |-> src, acct |-> accountId, idx |-> idx, sess |-> sess, task |-> task,
   at |-> session, data |-> data]

\* if let module = self.module { DispatchQueue.main.async { module.sendEvent } }
Emit(queue, ev) == IF module THEN Append(queue, ev) ELSE queue

\* ------------------------------------------------- app group container

\* "group.\(bundleId)"
GroupIdentifier(bundleId) == <<"group">> \o bundleId

\* The main process: appGroupIdentifier ?? "group.\(Bundle.main.bundleIdentifier)"
MainGroup == GroupIdentifier(MainBundleId)

\* A second app group of the app, "group.\(bundleId).financekit".
OtherGroup == GroupIdentifier(MainBundleId \o <<"financekit">>)

\* appGroupIdentifier ?? "group.\(Bundle.main.bundleIdentifier)": the group
\* storeChangeForLater and processPendingChanges resolve their directory in.
ResolvedGroup == IF appGroupIdentifier = Nil THEN MainGroup ELSE appGroupIdentifier

\* A containerURL that resolves for every identifier.
ContainerURLAlways(groupId) == groupId

\* FileManager.default.containerURL(forSecurityApplicationGroupIdentifier:)
ContainerURL(groupId) == IF groupId \in appGroups THEN groupId ELSE Nil

\* appGroupURL.appendingPathComponent("pending_changes") in a group's container
PendingChanges(groupId) == IF groupId = MainGroup THEN files ELSE otherFiles

\* TransactionMonitor.startMonitoring: the identifier is inferred as
\* "group.\(bundleId)" when none is set and that group's container resolves.
InferAppGroupIdentifier ==
  IF appGroupIdentifier = Nil /\ ContainerURL(GroupIdentifier(MainBundleId)) # Nil
  THEN GroupIdentifier(MainBundleId) ELSE appGroupIdentifier

\* AsyncFunction("setAppGroupIdentifier"): self.appGroupIdentifier = identifier
SetAppGroupIdentifier(identifier) ==
  /\ appGroupIdentifier' = identifier
  /\ UNCHANGED <<extVars, jsVars, bgVars, envVars, module, monVars, evVars, storeVars>>

\* ------------------------------------------------------------ live monitor

\* The position the tasks of an account have reached in its history.
ObservedPosition(accountId) ==
  LET reached == {tasks[i].cursor : i \in {j \in DOMAIN tasks : tasks[j].acct = accountId}}
  IN IF reached = {} THEN 0 ELSE CHOOSE c \in reached : \A d \in reached : d <= c

\* A getHistoryToken that hands back the position observed so far.
GetHistoryTokenResumes(accountId) ==
  IF ObservedPosition(accountId) = 0 THEN <<>> ELSE <<ObservedPosition(accountId)>>

\* getHistoryToken(for:): `return nil`, whatever UserDefaults holds. A token
\* is <<>> for nil, or <<k>> for the position after the k-th batch.
GetHistoryToken(accountId) == <<>>

\* transactionHistory(forAccountID:since:isMonitoring:): the batches already
\* behind the sequence when it is opened; nil means none.
Since(historyToken) == IF historyToken = <<>> THEN 0 ELSE historyToken[1]

\* "FinanceKitHistoryToken_" + accountId.uuidString
HistoryTokenKey(accountId) == <<"FinanceKitHistoryToken", accountId>>

\* monitorAccount: let historyToken = getHistoryToken(for: accountId), then the
\* sequence opened with since: historyToken.
NewTask(accountId, sess) ==
  [acct |-> accountId, sess |-> sess, cancelled |-> FALSE,
   since |-> GetHistoryToken(accountId), cursor |-> Since(GetHistoryToken(accountId)),
   done |-> FALSE]

\* for accountId in accountIds { monitoringTasks[accountId] = Task { ... } }
RECURSIVE StartMonitoringForAccounts(_, _, _, _)
StartMonitoringForAccounts(accountIds, ts, mt, sess) ==
  IF accountIds = <<>> THEN [tasks |-> ts, monitoringTasks |-> mt]
  ELSE LET ts2 == Append(ts, NewTask(Head(accountIds), sess))
       IN StartMonitoringForAccounts(Tail(accountIds), ts2,
            [mt EXCEPT ![Head(accountIds)] = Len(ts2)], sess)

\* for (_, task) in monitoringTasks { task.cancel() }; monitoringTasks.removeAll()
StopMonitoring(ts, mt) ==
  [tasks |-> [i \in DOMAIN ts |->
                IF \E a \in Accounts : mt[a] = i
                THEN [ts[i] EXCEPT !.cancelled = TRUE] ELSE ts[i]],
   monitoringTasks |-> [a \in Accounts |-> 0]]

\* TransactionMonitor.startMonitoring(accountIds:module:): register the module,
\* stop the existing monitoring, then start the given accounts, or spawn the
\* Task that queries all accounts when none is given.
StartMonitoring(accountUUIDs) ==
  LET stopped == StopMonitoring(tasks, monitoringTasks)
      started == StartMonitoringForAccounts(accountUUIDs, stopped.tasks,
                                             stopped.monitoringTasks, session + 1)
  IN /\ module' = TRUE
     /\ appGroupIdentifier' = InferAppGroupIdentifier
     /\ session' = session + 1
     /\ lastCall' = "start"
     /\ IF accountUUIDs = <<>>
        THEN /\ tasks' = stopped.tasks
             /\ monitoringTasks' = stopped.monitoringTasks
             /\ pendingStarts' = pendingStarts \cup {session + 1}
             /\ requested' = Accounts
        ELSE /\ tasks' = started.tasks
             /\ monitoringTasks' = started.monitoringTasks
             /\ pendingStarts' = pendingStarts
             /\ requested' = Range(accountUUIDs)

\* AsyncFunction("startMonitoringTransactions"): throws unless authorized
StartMonitoringTransactions(ids) ==
  /\ session < MaxStarts
  /\ authStatus = "authorized"
  /\ StartMonitoring(CompactMapUUID(ids))
  /\ UNCHANGED <<extVars, jsVars, bgVars, envVars, evVars, storeVars>>

\* The Task of startMonitoring resumes after `try await accounts(query:)`.
ResolveAccounts(s, ok) ==
  /\ s \in pendingStarts
  /\ pendingStarts' = pendingStarts \ {s}
  /\ IF ok
     THEN LET started == StartMonitoringForAccounts(AllAccountIds, tasks,
                                                     monitoringTasks, s)
          IN /\ tasks' = started.tasks
             /\ monitoringTasks' = started.monitoringTasks
     ELSE UNCHANGED <<tasks, monitoringTasks>>
  /\ UNCHANGED <<extVars, jsVars, bgVars, envVars, evVars, storeVars, modVars, session, lastCall, requested>>

\* AsyncFunction("stopMonitoringTransactions")
StopMonitoringTransactions ==
  /\ LET stopped == StopMonitoring(tasks, monitoringTasks)
     IN /\ tasks' = stopped.tasks
        /\ monitoringTasks' = stopped.monitoringTasks
  /\ lastCall' = "stop"
  /\ UNCHANGED <<extVars, jsVars, bgVars, envVars, evVars, storeVars, modVars, pendingStarts, session, requested>>

\* One turn of `for try await change in transactionHistory` in monitorAccount.
\* The sequence was opened with since: nil, so it starts at the beginning of
\* the account's history.
MonitorAccount(i) ==
  /\ i \in DOMAIN tasks
  /\ ~tasks[i].done
  /\ LET t == tasks[i] IN
     IF t.cancelled
     THEN \* the sequence ends, or yields and `if Task.isCancelled { break }`
          /\ tasks' = [tasks EXCEPT ![i].done = TRUE]
          /\ UNCHANGED mainQueue
     ELSE /\ t.cursor < Len(history[t.acct])
          /\ tasks' = [tasks EXCEPT ![i].cursor = t.cursor + 1]
          /\ mainQueue' = Emit(mainQueue,
               Event("live", t.acct, t.cursor + 1, t.sess, i,
                     ConvertTransactionChangeToDict(history[t.acct][t.cursor + 1],
                                                    t.acct, now)))
  /\ UNCHANGED <<extVars, jsVars, bgVars, envVars, storeVars, modVars, jsEvents, monitoringTasks, pendingStarts,
                 session, lastCall, requested>>

\* The sequence throws: catch { print(...) } and the task ends.
MonitorError(i) ==
  /\ i \in DOMAIN tasks
  /\ ~tasks[i].done
  /\ ~tasks[i].cancelled
  /\ tasks' = [tasks EXCEPT ![i].done = TRUE]
  /\ UNCHANGED <<extVars, jsVars, bgVars, envVars, evVars, storeVars, modVars, monitoringTasks, pendingStarts,
                 session, lastCall, requested>>

\* A main queue that runs the block queued last.
SendEventNewestFirst ==
  /\ mainQueue # <<>>
  /\ jsEvents' = Append(jsEvents, mainQueue[Len(mainQueue)])
  /\ mainQueue' = SubSeq(mainQueue, 1, Len(mainQueue) - 1)
  /\ UNCHANGED <<extVars, jsVars, bgVars, envVars, storeVars, modVars, monVars>>

\* The main queue runs the next block: module.sendEvent("onTransactionsChanged", ..)
SendEvent ==
  /\ mainQueue # <<>>
  /\ jsEvents' = Append(jsEvents, Head(mainQueue))
  /\ mainQueue' = Tail(mainQueue)
  /\ UNCHANGED <<extVars, jsVars, bgVars, envVars, storeVars, modVars, monVars>>

\* ------------------------------------------------- cross-process signal

\* bundleIdentifier.replacingOccurrences(of: ".background-extension", with: "")
ReplacingExtensionSuffix(bundleId) ==
  SelectSeq(bundleId, LAMBDA c : c # "background-extension")

\* "\(mainBundleId).dataChanged"
NotificationName(bundleId) == bundleId \o <<"dataChanged">>

\* The name the extension posts on, without removing its own suffix.
PostedNameUnstripped(bundleId) == NotificationName(bundleId)

\* notifyMainApp: the name the extension posts on.
PostedName(bundleId) == NotificationName(ReplacingExtensionSuffix(bundleId))

\* setupBackgroundNotificationObserver: the name the main process observes.
ObservedName == NotificationName(MainBundleId)

\* The marker files handleFinanceDataUpdate asks storeSharedData to write.
MarkerKeys == {"last_sync_accounts", "last_sync_transactions", "last_sync_balances"}

\* storeSharedData: no file when the container does not resolve.
StoreSharedData(markers, key) ==
  IF ContainerURL(GroupIdentifier(ReplacingExtensionSuffix(ExtensionBundleId))) = Nil
  THEN markers
  ELSE markers \cup {key}

\* The OS delivers a store-changed callback to the extension.
FinanceStoreDidChange ==
  /\ extension.pc = "idle"
  /\ extension.callbacks < MaxSignals
  /\ extension' = [pc |-> "update", callbacks |-> extension.callbacks + 1]
  /\ UNCHANGED <<extVars, jsVars, envVars, modVars, monVars, evVars, storeVars, scheduler, darwin,
                 shared, appGroups>>

\* handleFinanceDataUpdate: the three updateShared...Data calls, each guarded by
\* the authorization status; none of them queries transactions or changes.
HandleFinanceDataUpdate ==
  /\ extension.pc = "update"
  /\ shared' = IF authStatus = "authorized"
               THEN StoreSharedData(StoreSharedData(StoreSharedData(shared,
                      "last_sync_accounts"), "last_sync_transactions"), "last_sync_balances")
               ELSE shared
  /\ extension' = [extension EXCEPT !.pc = "notify"]
  /\ UNCHANGED <<extVars, jsVars, envVars, modVars, monVars, evVars, storeVars, scheduler, darwin,
                 appGroups>>

\* notifyMainApp: CFNotificationCenterPostNotification, no payload.
NotifyMainApp ==
  /\ extension.pc = "notify"
  /\ darwin' = Append(darwin, PostedName(ExtensionBundleId))
  /\ extension' = [extension EXCEPT !.pc = "idle"]
  /\ UNCHANGED <<extVars, jsVars, envVars, modVars, monVars, evVars, storeVars, scheduler, shared,
                 appGroups>>

\* ------------------------------------------------- background sync (writer)

\* scheduleBackgroundSync: BGTaskScheduler.shared.submit(request); a request that
\* is accepted replaces the pending one, a submit that throws is only printed.
ScheduleBackgroundSync(sch, accepted) ==
  [pending |-> sch.pending \/ accepted, submits |-> sch.submits + 1]

\* The observer of the Darwin notification: handleBackgroundDataChange.
HandleBackgroundDataChange(accepted) ==
  /\ darwin # <<>>
  /\ darwin' = Tail(darwin)
  /\ IF Head(darwin) = ObservedName
     THEN scheduler' = ScheduleBackgroundSync(scheduler, accepted)
     ELSE accepted /\ UNCHANGED scheduler
  /\ UNCHANGED <<extVars, jsVars, envVars, modVars, monVars, evVars, storeVars, extension, shared,
                 appGroups>>

\* JSONSerialization.data(withJSONObject:) and .jsonObject(with:) as? [String: Any]
JSONData(dict) == [kind |-> "json", value |-> dict]
IsJSONObject(data) == data.kind = "json"
JSONObject(data) == data.value

\* "\(accountId.uuidString)_\(Date().timeIntervalSince1970).json"
FileName(accountId, t) == <<accountId, t>>

\* contentsOfDirectory(at:) lists the directory in a fixed order.
AllNames ==
  [k \in 1..(Len(AllAccountIds) * (MaxClock + 1)) |->
     FileName(AllAccountIds[((k - 1) \div (MaxClock + 1)) + 1], (k - 1) % (MaxClock + 1))]

Exists(fs, n) == n \in DOMAIN fs
ContentsOfDirectory(fs) == SelectSeq(AllNames, LAMBDA n : Exists(fs, n))

\* FileManager.default.removeItem(at:)
RemoveItem(fs, n) == [m \in DOMAIN fs \ {n} |-> fs[m]]

\* Array(monitoringTasks.keys)
MonitoredKeys(mt) == SelectSeq(AllAccountIds, LAMBDA a : mt[a] # 0)

\* storeChangeForLater: nothing when the container does not resolve; otherwise
\* jsonData.write(to: fileURL) creates or replaces the file of that name.
\* acct and idx record which batch of the native history the file holds.
StoreChangeForLater(fs, change, accountId, idx, t) ==
  IF ContainerURL(ResolvedGroup) = Nil THEN fs
  ELSE (FileName(accountId, t) :>
          [data |-> JSONData(ConvertTransactionChangeToDict(change, accountId, t)),
           acct |-> accountId, idx |-> idx]) @@ fs

\* A run of the registered task: what handleBackgroundSync has started.
NewSync(accepted) ==
  [pc |-> "start", accts |-> <<>>, todo |-> <<>>, since |-> <<>>, cursor |-> 0,
   failed |-> {}, completed |-> <<>>, resubmit |-> accepted]

\* syncAccount begins: let historyToken = getHistoryToken(for: accountId), then
\* the sequence opened with since: historyToken. `todo` is what is left to sync.
SyncAccount(run, todo) ==
  IF todo = <<>> THEN [run EXCEPT !.todo = <<>>, !.since = <<>>, !.cursor = 0]
  ELSE [run EXCEPT !.todo = todo, !.since = GetHistoryToken(Head(todo)),
                   !.cursor = Since(GetHistoryToken(Head(todo)))]

\* A handler that starts the sync without scheduling the next run.
HandleBackgroundSyncOnce(accepted) ==
  /\ scheduler.pending
  /\ Len(syncs) < MaxSyncRuns
  /\ scheduler' = [scheduler EXCEPT !.pending = FALSE]
  /\ syncs' = Append(syncs, NewSync(accepted))
  /\ UNCHANGED <<extVars, jsVars, envVars, modVars, monVars, evVars, files, otherFiles, stored, extension,
                 darwin, shared, appGroups>>

\* The OS runs the pending request: handleBackgroundSync calls
\* scheduleBackgroundSync(), sets the expiration handler and starts
\* Task { syncAllAccounts }.
HandleBackgroundSync(accepted) ==
  /\ scheduler.pending
  /\ Len(syncs) < MaxSyncRuns
  /\ scheduler' = ScheduleBackgroundSync([scheduler EXCEPT !.pending = FALSE], accepted)
  /\ syncs' = Append(syncs, NewSync(accepted))
  /\ UNCHANGED <<extVars, jsVars, envVars, modVars, monVars, evVars, files, otherFiles, stored, extension,
                 darwin, shared, appGroups>>

\* syncAllAccounts: the monitored accounts, or every account when none is monitored
\* (ok: the accounts query returned; otherwise the error is printed and nothing is synced).
SyncAllAccounts(r, ok) ==
  /\ r \in DOMAIN syncs
  /\ syncs[r].pc = "start"
  /\ LET accountIds == MonitoredKeys(monitoringTasks)
         list == IF accountIds # <<>> THEN accountIds
                 ELSE IF ok THEN AllAccountIds ELSE <<>>
     IN /\ accountIds # <<>> => ok
        /\ syncs' = [syncs EXCEPT ![r] = SyncAccount([@ EXCEPT !.pc = "sync", !.accts = list],
                                                     list)]
  /\ UNCHANGED <<extVars, jsVars, bgVars, envVars, modVars, monVars, evVars, files, otherFiles, stored>>

\* syncAccount: one turn of `for try await change in transactionHistory`
\* (since: nil, isMonitoring: false), which stores the change.
SyncAccountStore(r) ==
  /\ r \in DOMAIN syncs
  /\ syncs[r].pc = "sync"
  /\ syncs[r].todo # <<>>
  /\ LET a == Head(syncs[r].todo)
         k == syncs[r].cursor + 1
     IN /\ k <= Len(history[a])
        /\ IF ResolvedGroup = MainGroup
           THEN /\ files' = StoreChangeForLater(files, history[a][k], a, k, now)
                /\ otherFiles' = otherFiles
           ELSE /\ otherFiles' = StoreChangeForLater(otherFiles, history[a][k], a, k, now)
                /\ files' = files
        /\ stored' = IF ContainerURL(ResolvedGroup) = Nil THEN stored
                     ELSE stored \cup {<<a, k>>}
        /\ syncs' = [syncs EXCEPT ![r].cursor = k]
  /\ UNCHANGED <<extVars, jsVars, bgVars, envVars, modVars, monVars, evVars>>

\* syncAccount returns: the sequence has ended.
SyncAccountEnd(r) ==
  /\ r \in DOMAIN syncs
  /\ syncs[r].pc = "sync"
  /\ syncs[r].todo # <<>>
  /\ syncs[r].cursor = Len(history[Head(syncs[r].todo)])
  /\ syncs' = [syncs EXCEPT ![r] = SyncAccount(@, Tail(@.todo))]
  /\ UNCHANGED <<extVars, jsVars, bgVars, envVars, modVars, monVars, evVars, files, otherFiles, stored>>

\* A syncAccount whose error ends the whole run.
SyncAccountErrorAborts(r) ==
  /\ r \in DOMAIN syncs
  /\ syncs[r].pc = "sync"
  /\ syncs[r].todo # <<>>
  /\ syncs[r].cursor < Len(history[Head(syncs[r].todo)])
  /\ syncs' = [syncs EXCEPT ![r].todo = <<>>, ![r].cursor = 0,
                            ![r].failed = @ \cup {Head(syncs[r].todo)}]
  /\ UNCHANGED <<extVars, jsVars, bgVars, envVars, modVars, monVars, evVars, files, otherFiles, stored>>

\* syncAccount returns: transactionHistory or the sequence threw, catch { print }.
SyncAccountError(r) ==
  /\ r \in DOMAIN syncs
  /\ syncs[r].pc = "sync"
  /\ syncs[r].todo # <<>>
  /\ syncs[r].cursor < Len(history[Head(syncs[r].todo)])
  /\ syncs' = [syncs EXCEPT ![r] = SyncAccount([@ EXCEPT !.failed = @ \cup {Head(syncs[r].todo)}],
                                               Tail(@.todo))]
  /\ UNCHANGED <<extVars, jsVars, bgVars, envVars, modVars, monVars, evVars, files, otherFiles, stored>>

\* syncAllAccounts has returned: task.setTaskCompleted(success: true)
SyncComplete(r) ==
  /\ r \in DOMAIN syncs
  /\ syncs[r].pc = "sync"
  /\ syncs[r].todo = <<>>
  /\ syncs' = [syncs EXCEPT ![r].pc = "done", ![r].completed = Append(@, TRUE)]
  /\ UNCHANGED <<extVars, jsVars, bgVars, envVars, modVars, monVars, evVars, files, otherFiles, stored>>

\* The OS expires the running task: task.expirationHandler calls
\* task.setTaskCompleted(success: false); the Task of the run is not cancelled.
ExpirationHandler(r) ==
  /\ r \in DOMAIN syncs
  /\ syncs[r].pc # "done"
  /\ syncs[r].completed = <<>>
  /\ syncs' = [syncs EXCEPT ![r].completed = Append(@, FALSE)]
  /\ UNCHANGED <<extVars, jsVars, bgVars, envVars, modVars, monVars, evVars, files, otherFiles, stored>>

\* ------------------------------------------------- pending-change drain

Parseable(fs, n) == Exists(fs, n) /\ IsJSONObject(fs[n].data)
Malformed(fs, n) == Exists(fs, n) /\ ~IsJSONObject(fs[n].data)

\* The body of `for fileURL in files where fileURL.pathExtension == "json"`:
\* a file that reads and parses is emitted if a module is there, and removed
\* in either case; a file that does not is skipped.
RECURSIVE DrainFiles(_, _, _)
DrainFiles(listing, fs, queue) ==
  IF listing = <<>> THEN [files |-> fs, mainQueue |-> queue]
  ELSE LET n == Head(listing) IN
       IF Parseable(fs, n)
       THEN DrainFiles(Tail(listing), RemoveItem(fs, n),
              Emit(queue, Event("drain", fs[n].acct, fs[n].idx, 0, 0, JSONObject(fs[n].data))))
       ELSE DrainFiles(Tail(listing), fs, queue)

\* processPendingChanges (app became active, app launch, or the JS call)
ProcessPendingChanges ==
  /\ IF ContainerURL(ResolvedGroup) = Nil
     THEN UNCHANGED <<files, otherFiles, mainQueue>>
     ELSE LET dir == PendingChanges(ResolvedGroup)
              r == DrainFiles(ContentsOfDirectory(dir), dir, mainQueue)
          IN /\ IF ResolvedGroup = MainGroup
                THEN files' = r.files /\ otherFiles' = otherFiles
                ELSE otherFiles' = r.files /\ files' = files
             /\ mainQueue' = r.mainQueue
  /\ UNCHANGED <<extVars, jsVars, bgVars, envVars, modVars, monVars, jsEvents, syncs, stored>>

\* A pending file becomes unreadable as JSON (a torn or damaged write).
CorruptFile(n) ==
  /\ Parseable(files, n)
  /\ files' = [files EXCEPT ![n].data = [kind |-> "garbage", value |-> <<>>]]
  /\ otherFiles' = otherFiles
  /\ UNCHANGED <<extVars, jsVars, bgVars, envVars, modVars, monVars, evVars, syncs, stored>>

\* ------------------------------------------------------------ JS wrappers

Methods ==
  {"getAccounts", "getTransactions", "getBalances", "getBalanceByAccount",
   "startMonitoringTransactions"}

AccountIdArgs == {"", "A1", BadId}

\* ensureAuthorized of helpers.ts and of modules/authorization.ts, and the two
\* functions that request authorization and report { granted, status }.
EnsureMethods == {"helpers.ensureAuthorized", "authorization.ensureAuthorized"}
RequestMethods == {"requestAuthorizationWithStatus", "requestAuthorization"}

\* Platform.OS, and whether requireNativeModule("ExpoFinanceKit") succeeded
\* (it is only tried on iOS).
Ios == [os |-> "ios", nativeModule |-> TRUE]
Runtimes == {Ios, [os |-> "ios", nativeModule |-> FALSE],
             [os |-> "android", nativeModule |-> FALSE]}

\* ExpoFinanceKitModule.ts: what the Proxy's get trap returns for a property.
\* "function" is the async function that throws a plain Error, "native" the
\* native module's own method.
ProxyGet(prop) ==
  IF runtime.os = "android" THEN "function"
  ELSE IF runtime.nativeModule
       THEN IF prop = "isAvailable"
            THEN (IF authStatus = "unavailable" THEN "false" ELSE "true")
            ELSE "native"
  ELSE IF prop = "isAvailable" THEN "false"
  ELSE "function"

\* `x || false` in JS: x when it is truthy (a function is), otherwise false.
OrFalse(x) == IF x = "false" THEN "false" ELSE x

\* A call of a native method reaches the native module.
NativeAvailable == ProxyGet("getAuthorizationStatus") = "native"

\* TransactionQueryOptions. Numbers are counted in halves, so that 3 is 1.5;
\* <<>> is an option left undefined, 0 a date left out.
DefaultOptions ==
  [startDate |-> 0, endDate |-> 0, minAmount |-> <<>>, maxAmount |-> <<>>,
   limit |-> <<>>, offset |-> <<>>, transactionTypes |-> <<>>,
   statuses |-> <<>>, creditDebitIndicator |-> ""]

QueryOptions ==
  { DefaultOptions,
    [DefaultOptions EXCEPT !.startDate = 1, !.endDate = 2],
    [DefaultOptions EXCEPT !.startDate = 2, !.endDate = 1],
    [DefaultOptions EXCEPT !.minAmount = <<4>>, !.maxAmount = <<2>>],
    [DefaultOptions EXCEPT !.limit = <<2>>],
    [DefaultOptions EXCEPT !.limit = <<0>>],
    [DefaultOptions EXCEPT !.limit = <<3>>],
    [DefaultOptions EXCEPT !.offset = <<-2>>],
    [DefaultOptions EXCEPT !.transactionTypes = <<"transfer", "bogus">>],
    [DefaultOptions EXCEPT !.statuses = <<"booked", "settled">>],
    [DefaultOptions EXCEPT !.creditDebitIndicator = "debit"],
    [DefaultOptions EXCEPT !.creditDebitIndicator = "both"] }

TransactionTypes ==
  {"adjustment", "atm", "billPayment", "check", "deposit", "directDebit",
   "directDeposit", "dividend", "fee", "interest", "loan", "pointOfSale",
   "refund", "standingOrder", "transfer", "unknown", "withdrawal"}

TransactionStatuses == {"authorized", "booked", "pending", "rejected"}

CreditDebitIndicators == {"credit", "debit"}

IsInteger(halves) == halves % 2 = 0

\* validateTransactionQueryOptions: the code of the error it throws, or "ok".
ValidateTransactionQueryOptions(options) ==
  IF options.startDate # 0 /\ options.endDate # 0 /\ options.startDate > options.endDate
  THEN "InvalidDateRange"
  ELSE IF /\ options.minAmount # <<>> /\ options.maxAmount # <<>>
          /\ options.minAmount[1] > options.maxAmount[1]
  THEN "Unknown"
  ELSE IF options.limit # <<>> /\ (options.limit[1] <= 0 \/ ~IsInteger(options.limit[1]))
  THEN "Unknown"
  ELSE IF options.offset # <<>> /\ (options.offset[1] < 0 \/ ~IsInteger(options.offset[1]))
  THEN "Unknown"
  ELSE IF \E k \in DOMAIN options.transactionTypes :
            options.transactionTypes[k] \notin TransactionTypes
  THEN "Unknown"
  ELSE IF \E k \in DOMAIN options.statuses :
            options.statuses[k] \notin TransactionStatuses
  THEN "Unknown"
  ELSE IF /\ options.creditDebitIndicator # ""
          /\ options.creditDebitIndicator \notin CreditDebitIndicators
  THEN "Unknown"
  ELSE "ok"

IdleCall ==
  [pc |-> "idle", m |-> "none", accountId |-> "", ids |-> <<>>,
   options |-> DefaultOptions, status |-> "none",
   granted |-> FALSE, result |-> "none", dataCalls |-> 0, authRequests |-> 0,
   storeQueries |-> 0, statusCalls |-> 0, nativeError |-> "none", fallback |-> FALSE,
   requestIfNeeded |-> TRUE, requestResult |-> "none", returnedStatus |-> "none"]

Reject(call, code) == [call EXCEPT !.pc = "done", !.result = code]

\* ensureAuthorized with `status !== 'notDetermined'` as its first test
EnsureDecisionDeniedProceeds(status) ==
  IF status = "notDetermined" THEN "request" ELSE "proceed"

\* ensureAuthorized that requests authorization whenever it is not authorized
EnsureDecisionAlwaysRequests(status) ==
  IF status = "authorized" THEN "proceed" ELSE "request"

\* helpers.ts ensureAuthorized: what it does with the status it has read
EnsureDecision(status) ==
  IF status = "authorized" THEN "proceed"
  ELSE IF status = "notDetermined" THEN "request"
  ELSE "reject"

\* if (!accountId || typeof accountId !== 'string')
MissingAccountId(accountId) == accountId = ""

\* What a wrapper does once ensureAuthorized() has returned true: getTransactions
\* validates its options, startMonitoring tests Platform.OS, and then comes the
\* native call.
Authorized(call) ==
  IF call.m = "getTransactions" /\ ValidateTransactionQueryOptions(call.options) # "ok"
  THEN Reject(call, ValidateTransactionQueryOptions(call.options))
  ELSE IF call.m = "startMonitoringTransactions" /\ runtime.os # "ios"
  THEN Reject(call, "Unavailable")
  ELSE [call EXCEPT !.pc = "call"]

\* What the caller of ensureAuthorized() does with the boolean it returns: a
\* wrapper goes on or throws Unauthorized.
EnsureReturns(call, granted) ==
  IF call.m \in EnsureMethods
  THEN [call EXCEPT !.pc = "done", !.granted = granted,
                    !.result = IF granted THEN "true" ELSE "false"]
  ELSE IF granted THEN Authorized([call EXCEPT !.granted = TRUE])
  ELSE Reject([call EXCEPT !.granted = FALSE], "Unauthorized")

\* requestAuthorizationWithStatus / requestAuthorization return { granted, status }.
RequestReturns(call, granted, status) ==
  IF call.m \in RequestMethods
  THEN [call EXCEPT !.pc = "done", !.granted = granted, !.returnedStatus = status,
                    !.result = "resolved"]
  ELSE EnsureReturns(call, granted)

\* ensureAuthorized is called directly (requestIfNeeded is a parameter of the
\* one of modules/authorization.ts), or one of the request functions is.
JsAuthCall(m, requestIfNeeded) ==
  /\ js.pc \in {"idle", "done"}
  /\ m \in EnsureMethods \cup RequestMethods
  /\ m # "authorization.ensureAuthorized" => requestIfNeeded
  /\ js' = [IdleCall EXCEPT !.m = m, !.requestIfNeeded = requestIfNeeded,
                            !.pc = IF m \in EnsureMethods THEN "ensureAuthorized"
                                   ELSE "request"]
  /\ UNCHANGED <<extVars, bgVars, envVars, modVars, monVars, evVars, storeVars, runtime, isMonitoring>>

\* A wrapper is called. getBalanceByAccount checks its argument first; every
\* wrapper then awaits ensureAuthorized().
JsCall(m, accountId, ids, options) ==
  /\ js.pc \in {"idle", "done"}
  /\ m # "getBalanceByAccount" => accountId = ""
  /\ m # "startMonitoringTransactions" => ids = <<>>
  /\ m # "getTransactions" => options = DefaultOptions
  /\ m = "startMonitoringTransactions" => session < MaxStarts
  /\ LET call == [IdleCall EXCEPT !.m = m, !.accountId = accountId, !.ids = ids,
                                  !.options = options] IN
     js' = IF m = "getBalanceByAccount" /\ MissingAccountId(accountId)
           THEN Reject(call, "InvalidAccountId")
           ELSE [call EXCEPT !.pc = "ensureAuthorized"]
  /\ UNCHANGED <<extVars, bgVars, envVars, modVars, monVars, evVars, storeVars, runtime, isMonitoring>>

\* ensureAuthorized: `await ExpoFinanceKit.getAuthorizationStatus()` returns or
\* throws (off iOS and without the native module it always throws). In
\* helpers.ts a throw rejects the caller with the error as it is; in
\* modules/authorization.ts it is caught and read as 'unavailable'.
JsEnsureAuthorized(throws) ==
  /\ js.pc = "ensureAuthorized"
  /\ ~NativeAvailable => throws
  /\ LET read == [js EXCEPT !.statusCalls = @ + 1] IN
     js' = IF throws /\ js.m # "authorization.ensureAuthorized"
           THEN Reject(read, "NativeError")
           ELSE LET status == IF throws THEN "unavailable" ELSE authStatus
                    d == EnsureDecision(status)
                    seen == [read EXCEPT !.status = status]
                IN IF d = "proceed" THEN EnsureReturns(seen, TRUE)
                   ELSE IF d = "request" /\ js.requestIfNeeded
                   THEN [seen EXCEPT !.pc = "request"]
                   ELSE EnsureReturns(seen, FALSE)
  /\ UNCHANGED <<extVars, bgVars, envVars, modVars, monVars, evVars, storeVars, runtime, isMonitoring>>

\* `await ExpoFinanceKit.requestAuthorization()` inside try/catch. The user
\* answers the prompt (no prompt if the status is already determined); a throw
\* is caught and yields { granted: false, status: 'denied' }.
JsRequestAuthorization(outcome) ==
  /\ js.pc = "request"
  /\ outcome \in {"authorized", "denied", "throws"}
  /\ ~NativeAvailable => outcome = "throws"
  /\ authStatus = "unavailable" => outcome = "throws"
  /\ authStatus \in {"authorized", "denied"} => outcome \in {authStatus, "throws"}
  /\ authStatus' = IF outcome = "throws" THEN authStatus ELSE outcome
  /\ LET asked == [js EXCEPT !.authRequests = @ + 1, !.requestResult = outcome] IN
     js' = IF outcome = "throws"
           THEN RequestReturns(asked, FALSE, "denied")
           ELSE [asked EXCEPT !.pc = "status", !.granted = (outcome = "authorized")]
  /\ UNCHANGED <<extVars, bgVars, history, now, modVars, monVars, evVars, storeVars, runtime, isMonitoring>>

\* `await ExpoFinanceKit.getAuthorizationStatus()` after the request, inside the
\* same try/catch: a throw yields { granted: false, status: 'denied' }, else
\* the granted of the request goes with the status read now.
JsStatusAfterRequest(throws) ==
  /\ js.pc = "status"
  /\ LET read == [js EXCEPT !.statusCalls = @ + 1] IN
     js' = IF throws THEN RequestReturns(read, FALSE, "denied")
           ELSE RequestReturns(read, js.granted, authStatus)
  /\ UNCHANGED <<extVars, bgVars, envVars, modVars, monVars, evVars, storeVars, runtime, isMonitoring>>

\* The error the native AsyncFunction behind a wrapper throws, "none" if it
\* returns: unavailable, unauthorized, for getBalanceForAccount an id that is
\* no UUID, or a failure of the FinanceStore query.
NativeFailure(call, throws) ==
  IF authStatus = "unavailable" THEN "unavailable"
  ELSE IF authStatus # "authorized" THEN "unauthorized"
  ELSE IF call.m = "getBalanceByAccount" /\ ~IsUUID(call.accountId) THEN "invalidAccountId"
  ELSE IF throws THEN "storeError"
  ELSE "none"

\* FinanceStore queries one native function makes.
StoreQueries(m) == IF m = "getAccounts" THEN 2 ELSE 1

\* `await ExpoFinanceKit.<method>(...)` inside try/catch: any native error is
\* rethrown with code Unknown. getBalanceByAccount calls getBalances() instead
\* when the error's message names getBalanceForAccount (named: it does).
JsNativeCall(throws, named) ==
  /\ js.pc = "call"
  /\ LET called == [js EXCEPT !.dataCalls = @ + 1]
         cause == NativeFailure(js, throws)
     IN
     IF cause # "none"
     THEN /\ cause # "storeError" => ~throws
          /\ named => js.m = "getBalanceByAccount"
          /\ js' = IF named
                   THEN [IdleCall EXCEPT !.m = "getBalances", !.pc = "ensureAuthorized",
                                         !.accountId = js.accountId, !.fallback = TRUE,
                                         !.nativeError = cause]
                   ELSE Reject([called EXCEPT !.nativeError =
                                  IF @ = "none" THEN cause ELSE @], "Unknown")
          /\ UNCHANGED <<modVars, monVars, isMonitoring>>
     ELSE IF js.m = "startMonitoringTransactions"
     THEN /\ ~named
          /\ StartMonitoring(CompactMapUUID(js.ids))
          /\ isMonitoring' = TRUE
          /\ js' = [called EXCEPT !.pc = "done", !.result = "ok"]
     ELSE /\ ~named
          /\ js' = [called EXCEPT !.pc = "done",
                                  !.storeQueries = @ + StoreQueries(js.m),
                                  !.result = "data"]
          /\ UNCHANGED <<modVars, monVars, isMonitoring>>
  /\ UNCHANGED <<extVars, bgVars, envVars, evVars, storeVars, runtime>>

\* TransactionMonitor.stopMonitoring (JS): nothing off iOS; else
\* `await ExpoFinanceKit.stopMonitoringTransactions()`, which throws without
\* the native module or below iOS 17.4 (rethrown as Unknown), and then
\* `this.isMonitoring = false`.
JsStopMonitoring ==
  /\ js.pc \in {"idle", "done"}
  /\ LET call == [IdleCall EXCEPT !.m = "stopMonitoringTransactions"] IN
     IF runtime.os # "ios"
     THEN /\ js' = [call EXCEPT !.pc = "done", !.result = "ok"]
          /\ UNCHANGED <<tasks, monitoringTasks, lastCall, isMonitoring>>
     ELSE IF ~NativeAvailable \/ authStatus = "unavailable"
     THEN /\ js' = Reject([call EXCEPT !.nativeError = "unavailable"], "Unknown")
          /\ UNCHANGED <<tasks, monitoringTasks, lastCall, isMonitoring>>
     ELSE /\ LET stopped == StopMonitoring(tasks, monitoringTasks)
             IN /\ tasks' = stopped.tasks
                /\ monitoringTasks' = stopped.monitoringTasks
          /\ lastCall' = "stop"
          /\ isMonitoring' = FALSE
          /\ js' = [call EXCEPT !.pc = "done", !.result = "ok"]
  /\ UNCHANGED <<extVars, bgVars, envVars, evVars, storeVars, modVars, pendingStarts,
                 session, requested, runtime>>



\* modules/authorization getAuthorizationStatus(): the native status, or
\* 'unavailable' when the call throws.
JsGetAuthorizationStatus(throws) ==
  /\ js.pc \in {"idle", "done"}
  /\ ~NativeAvailable => throws
  /\ js' = [IdleCall EXCEPT !.m = "getAuthorizationStatus", !.pc = "done",
                            !.statusCalls = 1,
                            !.result = IF throws THEN "unavailable" ELSE authStatus]
  /\ UNCHANGED <<extVars, bgVars, envVars, modVars, monVars, evVars, storeVars, runtime, isMonitoring>>

\* modules/authorization isFinanceKitAvailable(): ExpoFinanceKit.isAvailable || false
JsIsFinanceKitAvailable ==
  /\ js.pc \in {"idle", "done"}
  /\ js' = [IdleCall EXCEPT !.m = "isFinanceKitAvailable", !.pc = "done",
                            !.result = OrFalse(ProxyGet("isAvailable"))]
  /\ UNCHANGED <<extVars, bgVars, envVars, modVars, monVars, evVars, storeVars, runtime, isMonitoring>>

\* The user changes the authorization in Settings.
AuthChange(s) ==
  /\ authStatus # "unavailable"
  /\ s \in AuthStatuses \ {"unavailable", "notDetermined", authStatus}
  /\ authStatus' = s
  /\ UNCHANGED <<extVars, jsVars, bgVars, history, now, modVars, monVars, evVars, storeVars>>

\* ------------------------------------------------------------ history token

\* No clearHistoryToken call for the account so far.
NotCleared == [tasks |-> -1, syncs |-> -1]

\* What has been fetched so far: the tasks and the sync runs started.
FetchStamp == [tasks |-> Len(tasks), syncs |-> Len(syncs)]

\* AsyncFunction("clearHistoryToken"): throws for an id that is no UUID, else
\* TransactionMonitor.clearHistoryToken(for:) removes the key from UserDefaults.
ClearHistoryToken(accountId) ==
  /\ IF IsUUID(accountId)
     THEN /\ userDefaults' = userDefaults \ {HistoryTokenKey(accountId)}
          /\ cleared' = [cleared EXCEPT ![accountId] = FetchStamp]
     ELSE UNCHANGED <<userDefaults, cleared>>
  /\ UNCHANGED <<jsVars, bgVars, envVars, modVars, monVars, evVars, storeVars, emitter, retry>>

\* ------------------------------------------------------------ JS listeners

\* A registration made by addListener: whether its subscription is still in
\* the emitter, how many events had been dispatched when it was made, when its
\* unsubscribe function was first called and when removeAllListeners was
\* (-1: not yet), and the events its callback was invoked with.
NewSubscription ==
  [listening |-> TRUE, from |-> emitter.dispatched, until |-> -1, removedAt |-> -1,
   calls |-> <<>>]

\* TransactionMonitor.addListener: a no-op off iOS and without an emitter, else
\* this.listeners.set(..) and eventEmitter.addListener('onTransactionsChanged', ..)
AddListener ==
  /\ Len(emitter.subscriptions) < MaxListeners
  /\ emitter' = IF runtime.os # "ios" THEN emitter
                ELSE [emitter EXCEPT !.subscriptions = Append(@, NewSubscription)]
  /\ UNCHANGED <<tokVars, retry, jsVars, bgVars, envVars, modVars, monVars, evVars, storeVars>>

\* An unsubscribe function that removes every listener of the event.
UnsubscribeRemovesAll(i) ==
  /\ i \in DOMAIN emitter.subscriptions
  /\ emitter' = [emitter EXCEPT !.subscriptions =
       [k \in DOMAIN @ |->
          [@[k] EXCEPT !.listening = FALSE,
                       !.until = IF k = i /\ @ = -1 THEN emitter.dispatched ELSE @]]]
  /\ UNCHANGED <<tokVars, retry, jsVars, bgVars, envVars, modVars, monVars, evVars, storeVars>>

\* The function addListener returned: this.listeners.delete(listenerId);
\* subscription.remove(). Calling it again changes nothing.
Unsubscribe(i) ==
  /\ i \in DOMAIN emitter.subscriptions
  /\ emitter' = [emitter EXCEPT !.subscriptions[i] =
       [@ EXCEPT !.listening = FALSE,
                 !.until = IF @ = -1 THEN emitter.dispatched ELSE @]]
  /\ UNCHANGED <<tokVars, retry, jsVars, bgVars, envVars, modVars, monVars, evVars, storeVars>>

\* TransactionMonitor.removeAllListeners:
\* eventEmitter.removeAllListeners('onTransactionsChanged'); listeners.clear()
RemoveAllListeners ==
  /\ emitter.subscriptions # <<>>
  /\ emitter' = [emitter EXCEPT !.subscriptions =
       [k \in DOMAIN @ |->
          [@[k] EXCEPT !.listening = FALSE,
                       !.removedAt = IF @ = -1 THEN emitter.dispatched ELSE @]]]
  /\ UNCHANGED <<tokVars, retry, jsVars, bgVars, envVars, modVars, monVars, evVars, storeVars>>

\* The emitter dispatches the next onTransactionsChanged event that sendEvent
\* handed to JS: the handler of every subscription it holds calls its callback.
DispatchEvent ==
  /\ emitter.dispatched < Len(jsEvents)
  /\ emitter' = [dispatched |-> emitter.dispatched + 1,
                 subscriptions |->
                   [k \in DOMAIN emitter.subscriptions |->
                      IF emitter.subscriptions[k].listening
                      THEN [emitter.subscriptions[k] EXCEPT
                              !.calls = Append(@, emitter.dispatched + 1)]
                      ELSE emitter.subscriptions[k]]]
  /\ UNCHANGED <<tokVars, retry, jsVars, bgVars, envVars, modVars, monVars, evVars, storeVars>>

\* ------------------------------------------------------------ ErrorRecovery.retry

\* What fn can throw: an Error made by createFinanceKitError, a plain Error,
\* or an object that is no Error but carries a code.
ThrownErrors ==
  {[isError |-> TRUE, code |-> c] :
      c \in {"Unauthorized", "Unavailable", "InvalidAccountId", "Unknown", "none"}}
    \cup {[isError |-> FALSE, code |-> "Unauthorized"]}

FinanceKitErrorCodes ==
  {"Unauthorized", "Unavailable", "InvalidAccountId", "InvalidDateRange", "Unknown"}

\* error instanceof Error && 'code' in error && the code is a FinanceKitErrorCode
IsFinanceKitError(error) == error.isError /\ error.code \in FinanceKitErrorCodes

\* A retry that gives up on no error.
DoNotRetryNothing(error) == FALSE

\* The errors of the "Don't retry certain errors" test.
DoNotRetry(error) ==
  IsFinanceKitError(error) /\ error.code \in {"Unauthorized", "Unavailable", "InvalidAccountId"}

\* maxRetries values, counted in halves (3 is 1.5).
MaxRetriesArgs == {0, 2, 3, 4, 6}

\* fn resolves instead of throwing.
Resolves == [isError |-> FALSE, code |-> "resolved"]

\* `lastError` before any attempt
Undefined == [isError |-> FALSE, code |-> "undefined"]

IdleRetry ==
  [pc |-> "idle", maxRetries |-> 0, i |-> 0, attempts |-> <<>>, waits |-> 0,
   lastError |-> Undefined, result |-> "none", error |-> Undefined]

\* The test of `for (let i = 0; i < maxRetries; i++)`, and `throw lastError`
\* once it fails.
RetryLoop(call) ==
  IF 2 * call.i < call.maxRetries THEN [call EXCEPT !.pc = "attempt"]
  ELSE [call EXCEPT !.pc = "done", !.result = "rejected", !.error = call.lastError]

\* ErrorRecovery.retry(fn, maxRetries, initialDelay) is called.
RetryCall(maxRetries) ==
  /\ retry.pc \in {"idle", "done"}
  /\ retry' = RetryLoop([IdleRetry EXCEPT !.maxRetries = maxRetries])
  /\ UNCHANGED <<tokVars, emitter, jsVars, bgVars, envVars, modVars, monVars, evVars, storeVars>>

\* `return await fn()` resolves, or throws and the catch block runs.
RetryAttempt(outcome) ==
  /\ retry.pc = "attempt"
  /\ LET tried == [retry EXCEPT !.attempts = Append(@, outcome)] IN
     retry' =
       IF outcome = Resolves THEN [tried EXCEPT !.pc = "done", !.result = "resolved"]
       ELSE LET failed == [tried EXCEPT !.lastError = outcome] IN
            IF DoNotRetry(outcome)
            THEN [failed EXCEPT !.pc = "done", !.result = "rejected", !.error = outcome]
            ELSE IF 2 * retry.i < retry.maxRetries - 2
            THEN [failed EXCEPT !.pc = "wait"]
            ELSE RetryLoop([failed EXCEPT !.i = @ + 1])
  /\ UNCHANGED <<tokVars, emitter, jsVars, bgVars, envVars, modVars, monVars, evVars, storeVars>>

\* The timer of `await new Promise(resolve => setTimeout(resolve, delay))` fires.
RetryWait ==
  /\ retry.pc = "wait"
  /\ retry' = RetryLoop([retry EXCEPT !.i = @ + 1, !.waits = @ + 1])
  /\ UNCHANGED <<tokVars, emitter, jsVars, bgVars, envVars, modVars, monVars, evVars, storeVars>>

\* ------------------------------------------------------------ environment

\* The native store records a change of an account.
NativeChange(a, c) ==
  /\ Len(history[a]) < MaxHistory
  /\ history' = [history EXCEPT ![a] = Append(@, c)]
  /\ UNCHANGED <<extVars, jsVars, bgVars, authStatus, now, modVars, monVars, evVars, storeVars>>

Tick ==
  /\ now < MaxClock
  /\ now' = now + 1
  /\ UNCHANGED <<extVars, jsVars, bgVars, authStatus, history, modVars, monVars, evVars, storeVars>>

InitRest ==
  /\ now = 0
  /\ module = FALSE
  /\ tasks = <<>>
  /\ monitoringTasks = [a \in Accounts |-> 0]
  /\ pendingStarts = {}
  /\ mainQueue = <<>>
  /\ jsEvents = <<>>
  /\ files = <<>>
  /\ syncs = <<>>
  /\ session = 0
  /\ lastCall = "none"
  /\ requested = {}
  /\ stored = {}
  /\ js = IdleCall
  /\ scheduler = [pending |-> FALSE, submits |-> 0]
  /\ extension = [pc |-> "idle", callbacks |-> 0]
  /\ darwin = <<>>
  /\ shared = {}
  /\ userDefaults = {}
  /\ isMonitoring = FALSE
  /\ emitter = [subscriptions |-> <<>>, dispatched |-> 0]
  /\ retry = IdleRetry
  /\ appGroupIdentifier = Nil
  /\ otherFiles = <<>>
  /\ cleared = [a \in Accounts |-> NotCleared]

Init ==
  /\ authStatus = "authorized"
  /\ appGroups = {MainGroup}
  /\ history = [a \in Accounts |-> <<>>]
  /\ runtime = Ios
  /\ InitRest

MonitorNext ==
  \/ \E ids \in IdLists : StartMonitoringTransactions(ids)
  \/ \E s \in pendingStarts, ok \in BOOLEAN : ResolveAccounts(s, ok)
  \/ StopMonitoringTransactions
  \/ \E i \in DOMAIN tasks : MonitorAccount(i)
  \/ \E i \in DOMAIN tasks : MonitorError(i)
  \/ SendEvent
  \/ \E a \in Accounts, c \in Changes : NativeChange(a, c)

MonitorSpec == Init /\ [][MonitorNext]_vars

\* startMonitoringTransactions where a single monitoring session is observed.
RelayStart(ids) ==
  /\ session < MaxRelayStarts
  /\ StartMonitoringTransactions(ids)

\* The live monitor over accounts whose history already holds batches when the
\* app starts: a stream opened with since: nil yields them from the first.
ExistingHistory == [k \in 1..MaxLog |-> CHOOSE c \in Changes : (c.inserted # <<>>) = (k % 2 = 1)]

OrderInit ==
  /\ authStatus = "authorized"
  /\ appGroups = {MainGroup}
  /\ history = [a \in Accounts |-> ExistingHistory]
  /\ runtime = Ios
  /\ InitRest

OrderNext ==
  \/ \E ids \in IdLists : RelayStart(ids)
  \/ \E s \in pendingStarts, ok \in BOOLEAN : ResolveAccounts(s, ok)
  \/ StopMonitoringTransactions
  \/ \E i \in DOMAIN tasks : MonitorAccount(i)
  \/ \E i \in DOMAIN tasks : MonitorError(i)
  \/ SendEvent

OrderSpec == OrderInit /\ [][OrderNext]_vars

Next ==
  \/ \E ids \in SeqsUpTo(Ids, 1) : RelayStart(ids)
  \/ \E s \in pendingStarts, ok \in BOOLEAN : ResolveAccounts(s, ok)
  \/ StopMonitoringTransactions
  \/ SendEvent
  \/ \E a \in Accounts, c \in Changes : NativeChange(a, c)
  \/ Tick
  \/ FinanceStoreDidChange
  \/ HandleFinanceDataUpdate
  \/ NotifyMainApp
  \/ HandleBackgroundDataChange(TRUE)
  \/ HandleBackgroundSync(TRUE)
  \/ \E r \in DOMAIN syncs, ok \in BOOLEAN : SyncAllAccounts(r, ok)
  \/ \E r \in DOMAIN syncs : SyncAccountStore(r)
  \/ \E r \in DOMAIN syncs : SyncAccountEnd(r)
  \/ \E r \in DOMAIN syncs : SyncAccountError(r)
  \/ \E r \in DOMAIN syncs : SyncComplete(r)
  \/ ProcessPendingChanges
  \/ \E n \in Range(AllNames) : CorruptFile(n)

Spec == Init /\ [][Next]_vars

\* The background path alone: the extension's signal, the scheduler, the runs of
\* the sync task with their expiration, and the drain, with or without an app
\* group container.
SyncInit ==
  /\ authStatus \in {"authorized", "denied"}
  /\ appGroups \in {{}, {MainGroup}}
  /\ history = [a \in Accounts |-> <<>>]
  /\ runtime = Ios
  /\ InitRest

SyncNext ==
  \/ FinanceStoreDidChange
  \/ HandleFinanceDataUpdate
  \/ NotifyMainApp
  \/ \E accepted \in BOOLEAN : HandleBackgroundDataChange(accepted)
  \/ \E accepted \in BOOLEAN : HandleBackgroundSync(accepted)
  \/ \E r \in DOMAIN syncs, ok \in BOOLEAN : SyncAllAccounts(r, ok)
  \/ \E r \in DOMAIN syncs : SyncAccountStore(r)
  \/ \E r \in DOMAIN syncs : SyncAccountEnd(r)
  \/ \E r \in DOMAIN syncs : SyncAccountError(r)
  \/ \E r \in DOMAIN syncs : SyncComplete(r)
  \/ \E r \in DOMAIN syncs : ExpirationHandler(r)
  \/ ProcessPendingChanges
  \/ \E a \in Accounts, c \in Changes : NativeChange(a, c)
  \/ Tick

SyncSpec == SyncInit /\ [][SyncNext]_vars

JsInit ==
  /\ authStatus \in AuthStatuses
  /\ appGroups = {MainGroup}
  /\ history = [a \in Accounts |-> <<>>]
  /\ runtime \in Runtimes
  /\ InitRest

JsNext ==
  \/ \E m \in Methods, accountId \in AccountIdArgs, ids \in IdLists,
         options \in QueryOptions : JsCall(m, accountId, ids, options)
  \/ \E m \in EnsureMethods \cup RequestMethods, requestIfNeeded \in BOOLEAN :
       JsAuthCall(m, requestIfNeeded)
  \/ \E throws \in BOOLEAN : JsEnsureAuthorized(throws)
  \/ \E outcome \in {"authorized", "denied", "throws"} : JsRequestAuthorization(outcome)
  \/ \E throws \in BOOLEAN : JsStatusAfterRequest(throws)
  \/ \E throws \in BOOLEAN, named \in BOOLEAN : JsNativeCall(throws, named)
  \/ \E throws \in BOOLEAN : JsGetAuthorizationStatus(throws)
  \/ JsIsFinanceKitAvailable
  \/ \E s \in AuthStatuses : AuthChange(s)

JsSpec == JsInit /\ [][JsNext]_vars

\* The history token: accounts whose history already holds batches, monitored
\* live and synced in the background, with clearHistoryToken called in between.
TokenInit ==
  /\ authStatus = "authorized"
  /\ appGroups = {MainGroup}
  /\ history = [a \in Accounts |-> SubSeq(ExistingHistory, 1, 1)]
  /\ runtime = Ios
  /\ InitRest

TokenNext ==
  \/ \E ids \in SeqsUpTo(Ids, 1) : StartMonitoringTransactions(ids)
  \/ \E s \in pendingStarts, ok \in BOOLEAN : ResolveAccounts(s, ok)
  \/ \E i \in DOMAIN tasks : MonitorAccount(i)
  \/ \E accountId \in Ids : ClearHistoryToken(accountId)
  \/ FinanceStoreDidChange
  \/ HandleFinanceDataUpdate
  \/ NotifyMainApp
  \/ HandleBackgroundDataChange(TRUE)
  \/ HandleBackgroundSync(FALSE)
  \/ \E r \in DOMAIN syncs : SyncAllAccounts(r, TRUE)
  \/ \E r \in DOMAIN syncs : SyncAccountStore(r)
  \/ \E r \in DOMAIN syncs : SyncAccountEnd(r)
  \/ \E r \in DOMAIN syncs : SyncComplete(r)

TokenSpec == TokenInit /\ [][TokenNext]_vars

\* The JS monitoring flag next to the native monitor: start and stop called
\* through the JS wrappers, the accounts lookup of an all-accounts start, and
\* account streams that fail.
FlagInit ==
  /\ authStatus = "authorized"
  /\ appGroups = {MainGroup}
  /\ history = [a \in Accounts |-> <<>>]
  /\ runtime \in Runtimes
  /\ InitRest

FlagNext ==
  \/ \E ids \in IdLists : JsCall("startMonitoringTransactions", "", ids, DefaultOptions)
  \/ \E throws \in BOOLEAN : JsEnsureAuthorized(throws)
  \/ \E throws \in BOOLEAN : JsNativeCall(throws, FALSE)
  \/ JsStopMonitoring
  \/ \E s \in pendingStarts, ok \in BOOLEAN : ResolveAccounts(s, ok)
  \/ \E i \in DOMAIN tasks : MonitorError(i)

FlagSpec == FlagInit /\ [][FlagNext]_vars

\* The JS listeners next to a live monitor that emits the batches the
\* accounts' histories hold.
ListenerNext ==
  \/ \E ids \in {<<"A1">>, <<"A1", "A2">>} : RelayStart(ids)
  \/ \E i \in DOMAIN tasks : MonitorAccount(i)
  \/ SendEvent
  \/ DispatchEvent
  \/ AddListener
  \/ \E i \in DOMAIN emitter.subscriptions : Unsubscribe(i)
  \/ RemoveAllListeners

ListenerSpec == OrderInit /\ [][ListenerNext]_vars

\* Calls of ErrorRecovery.retry with every outcome of each attempt.
RetryNext ==
  \/ \E maxRetries \in MaxRetriesArgs : RetryCall(maxRetries)
  \/ \E outcome \in ThrownErrors \cup {Resolves} : RetryAttempt(outcome)
  \/ RetryWait

RetrySpec == Init /\ [][RetryNext]_vars

\* The pending-change directory: an app entitled to two app groups, the
\* background sync writing, the drain reading, and setAppGroupIdentifier and
\* startMonitoringTransactions called in between.
GroupInit ==
  /\ authStatus = "authorized"
  /\ appGroups = {MainGroup, OtherGroup}
  /\ history = [a \in Accounts |-> <<>>]
  /\ runtime = Ios
  /\ InitRest

GroupNext ==
  \/ \E identifier \in {MainGroup, OtherGroup} : SetAppGroupIdentifier(identifier)
  \/ \E ids \in {<<"A1">>} : RelayStart(ids)
  \/ \E a \in Accounts, c \in Changes : NativeChange(a, c)
  \/ FinanceStoreDidChange
  \/ HandleFinanceDataUpdate
  \/ NotifyMainApp
  \/ HandleBackgroundDataChange(TRUE)
  \/ HandleBackgroundSync(TRUE)
  \/ \E r \in DOMAIN syncs : SyncAllAccounts(r, TRUE)
  \/ \E r \in DOMAIN syncs : SyncAccountStore(r)
  \/ \E r \in DOMAIN syncs : SyncAccountEnd(r)
  \/ \E r \in DOMAIN syncs : SyncComplete(r)
  \/ ProcessPendingChanges
  \/ SendEvent

GroupSpec == GroupInit /\ [][GroupNext]_vars

\* ------------------------------------------------------------------ claims
\* Events the main queue holds or has already handed to JS.
AllEvents == jsEvents \o mainQueue

\* The sendEvent blocks a step has queued.
Queued == {mainQueue'[k] : k \in (Len(mainQueue) + 1)..Len(mainQueue')}

\* A step that removes pending files: only processPendingChanges does.
RemovesFiles == DOMAIN files' # DOMAIN files /\ DOMAIN files' \subseteq DOMAIN files

\* C1: a pending file is deleted only after its contents have been handed to the
\* emission callback: every step that removes a file has queued the sendEvent of
\* that file's contents (also when no module is registered yet).
C1_DeletedOnlyAfterEmission ==
  [][\A n \in DOMAIN files \ DOMAIN files' :
       \E e \in Queued : e.src = "drain" /\ e.data = JSONObject(files[n].data)]_vars

\* C2: at-least-once delivery: no change batch that the background sync has
\* stored is lost; it is still in a pending file or it has been emitted to JS
\* (queued for sendEvent or already sent).
C2_StoredBatchSurfaces ==
  \A b \in stored :
    \/ \E n \in DOMAIN files : files[n].acct = b[1] /\ files[n].idx = b[2]
    \/ \E k \in DOMAIN AllEvents :
         /\ AllEvents[k].src = "drain"
         /\ AllEvents[k].acct = b[1]
         /\ AllEvents[k].idx = b[2]

\* C3: a storeChangeForLater write never targets the name of a pending file
\* that is still there, so no pending file is overwritten before it is drained.
C3_NoPendingFileOverwritten ==
  [][\A r \in DOMAIN syncs :
       syncs'[r].cursor = syncs[r].cursor + 1
         => ~Exists(files, FileName(Head(syncs[r].todo), now))]_vars

\* C9: a malformed pending file does not block the drain: in a pass that meets a
\* malformed file, every valid file is emitted and deleted, and the malformed
\* file is neither deleted nor emitted (the pass queues one event per valid file
\* and no other).
C9_MalformedFileIsolated ==
  [][(RemovesFiles /\ \E n \in DOMAIN files : Malformed(files, n)) =>
       /\ \A n \in DOMAIN files : Parseable(files, n) =>
            /\ n \notin DOMAIN files'
            /\ \E e \in Queued : e.src = "drain" /\ e.data = JSONObject(files[n].data)
       /\ \A n \in DOMAIN files : Malformed(files, n) =>
            n \in DOMAIN files' /\ files'[n] = files[n]
       /\ Len(mainQueue') - Len(mainQueue)
            = Cardinality({n \in DOMAIN files : Parseable(files, n)})]_vars

\* C10: a drain pass (no writer runs inside it) produces exactly one
\* onTransactionsChanged event for every parseable file present at its start and
\* leaves no parseable file in pending_changes.
C10_DrainEmitsEachFileOnce ==
  [][RemovesFiles =>
       /\ \A n \in DOMAIN files : Parseable(files, n) =>
            Cardinality({k \in (Len(mainQueue) + 1)..Len(mainQueue') :
                           /\ mainQueue'[k].src = "drain"
                           /\ mainQueue'[k].data = JSONObject(files[n].data)}) = 1
       /\ \A n \in DOMAIN files' : ~Parseable(files', n)]_vars

\* A task whose stream is open: started, not cancelled, not ended.
Live(i) == ~tasks[i].cancelled /\ ~tasks[i].done

LiveCount == Cardinality({k \in DOMAIN AllEvents : AllEvents[k].src = "live"})

\* C4: after stopMonitoringTransactions has returned and until the next start,
\* the live monitor emits no new onTransactionsChanged event.
C4_NoEmissionAfterStop ==
  [][(lastCall = "stop" /\ lastCall' = "stop") => LiveCount' = LiveCount]_vars

\* C7: once a start call has taken effect (no accounts query of a start is
\* still outstanding), every live stream belongs to the most recent start call
\* and monitors an account that call asked for.
C7_StartReplacesSession ==
  (lastCall = "start" /\ pendingStarts = {}) =>
    \A i \in DOMAIN tasks :
      Live(i) => tasks[i].sess = session /\ tasks[i].acct \in requested

\* C8: while the live monitor is active, a batch of the native stream results in
\* one onTransactionsChanged event, never in two: within one monitoring session
\* no batch of an account is emitted twice.
C8_OneEventPerBatch ==
  \A a \in Accounts, k \in 1..MaxHistory :
    Cardinality({j \in DOMAIN AllEvents :
                   /\ AllEvents[j].src = "live"
                   /\ AllEvents[j].acct = a
                   /\ AllEvents[j].idx = k
                   /\ AllEvents[j].at = session}) <= 1

\* The call has ended and no native data call was made for it.
RejectedUnauthorized ==
  js.result = "Unauthorized" /\ js.dataCalls = 0 /\ js.storeQueries = 0

C6_DeniedGetAccounts ==
  (js.pc = "done" /\ js.m = "getAccounts" /\ js.status = "denied") =>
    /\ js.result = "Unauthorized"
    /\ js.dataCalls = 0
    /\ js.storeQueries = 0
    /\ js.authRequests = 0

C6_Witness ==
  js.pc = "done" /\ js.m = "getAccounts" /\ js.status = "denied"
    /\ js.result = "Unauthorized"

\* ------------------------------------------- claims on the background path

\* Signals the extension has posted so far.
Posted == extension.callbacks - (IF extension.pc = "idle" THEN 0 ELSE 1)

\* Submit calls made by the observer of the signal (the others are the handler's).
ObserverSubmits == scheduler.submits - Len(syncs)

LastSync == syncs[Len(syncs)]

C12_OneRequestPerCallback ==
  /\ \A k \in DOMAIN darwin : darwin[k] = ObservedName
  /\ ObserverSubmits = Posted - Len(darwin)

C12_Witness ==
  /\ extension.callbacks = 1
  /\ extension.pc = "idle"
  /\ darwin = <<>>
  /\ scheduler.submits = 1
  /\ syncs = <<>>

\* C13: a fetch failure on one account leaves the remaining accounts of the run
\* to be processed, and a run ends with setTaskCompleted(success: true) once no
\* account is left, whatever the number of failures.
C13_FailureDoesNotStopRun ==
  [][\A r \in DOMAIN syncs :
       /\ syncs'[r].failed # syncs[r].failed => syncs'[r].todo = Tail(syncs[r].todo)
       /\ (syncs[r].pc # "done" /\ syncs'[r].pc = "done") =>
            /\ syncs[r].todo = <<>>
            /\ syncs'[r].completed = Append(syncs[r].completed, TRUE)]_vars

C13_Witness ==
  \E r \in DOMAIN syncs :
    /\ syncs[r].pc = "done"
    /\ syncs[r].accts = AllAccountIds
    /\ syncs[r].failed = {"A1"}
    /\ syncs[r].completed = <<TRUE>>
    /\ <<"A2", 1>> \in stored
    /\ <<"A1", 1>> \notin stored

ChangeKeys == {"inserted", "updated", "deleted"}

\* C14: no pending file holds a batch without inserted, updated and deleted
\* entries.
C14_NoEmptyBatchStored ==
  \A n \in DOMAIN files :
    IsJSONObject(files[n].data) => DOMAIN JSONObject(files[n].data) \cap ChangeKeys # {}

\* C15: once the OS has expired a run, the last outcome reported for the task is
\* failure.
C15_ExpiredTaskReportsFailure ==
  \A r \in DOMAIN syncs :
    FALSE \in Range(syncs[r].completed) =>
      syncs[r].completed[Len(syncs[r].completed)] = FALSE

\* C17: when the app group container does not resolve, no step creates or
\* deletes a pending file, writes a marker file or queues an event, and the
\* extension still posts its signal.
C17_NoContainerNoOp ==
  [][appGroups = {} =>
       /\ files' = files
       /\ shared' = shared
       /\ mainQueue' = mainQueue
       /\ (extension.pc = "notify" /\ extension'.pc = "idle") =>
            darwin' = Append(darwin, ObservedName)]_vars

C17_Witness ==
  /\ appGroups = {}
  /\ authStatus = "authorized"
  /\ \E r \in DOMAIN syncs : syncs[r].pc = "sync" /\ syncs[r].cursor = 1
  /\ files = <<>>
  /\ extension = [pc |-> "idle", callbacks |-> 1]
  /\ shared = {}

\* C16: the events of one account's stream reach JS in the order in which the
\* stream yielded their batches: of two events of the same stream, the one
\* queued or delivered first carries the earlier batch.
C16_PerAccountOrder ==
  \A j, k \in DOMAIN AllEvents :
    (/\ j < k
     /\ AllEvents[j].src = "live"
     /\ AllEvents[k].src = "live"
     /\ AllEvents[j].task = AllEvents[k].task) => AllEvents[j].idx < AllEvents[k].idx

C16_Witness ==
  /\ Len(jsEvents) >= 3
  /\ \E j, k \in DOMAIN jsEvents :
       /\ j < k
       /\ jsEvents[j].acct = "A1" /\ jsEvents[k].acct = "A1"
       /\ jsEvents[j].task = jsEvents[k].task
       /\ jsEvents[j].idx = 1 /\ jsEvents[k].idx = 2
       /\ \E l \in DOMAIN jsEvents : j < l /\ l < k /\ jsEvents[l].acct = "A2"

\* C18: getTransactions with malformed options rejects with the validation
\* error before any native call, the authorization calls included.
C18_ValidationBeforeNativeCalls ==
  (/\ js.pc = "done"
   /\ js.m = "getTransactions"
   /\ ValidateTransactionQueryOptions(js.options) # "ok") =>
    /\ js.result = ValidateTransactionQueryOptions(js.options)
    /\ js.statusCalls = 0
    /\ js.authRequests = 0
    /\ js.dataCalls = 0

\* C19: a failure of the native call of a wrapper is rejected with code Unknown,
\* except that a native authorization failure is rejected with Unauthorized and
\* a native invalid-account-id failure with InvalidAccountId.
C19_NativeFailureWrapped ==
  (js.pc = "done" /\ js.nativeError # "none") =>
    js.result = CASE js.nativeError = "unauthorized" -> "Unauthorized"
                  [] js.nativeError = "invalidAccountId" -> "InvalidAccountId"
                  [] OTHER -> "Unknown"

\* C20: on Android, and without the native module, isFinanceKitAvailable() is
\* false, getAuthorizationStatus() is 'unavailable' and no data-fetching method
\* resolves with data.
C20_UnavailableWithoutNativeModule ==
  (js.pc = "done" /\ runtime # Ios) =>
    /\ js.m = "isFinanceKitAvailable" => js.result = "false"
    /\ js.m = "getAuthorizationStatus" => js.result = "unavailable"
    /\ js.m \in Methods => js.result \notin {"data", "ok"}
\* Fetches of account a opened after its token was last cleared.
TasksAfterClear(a) ==
  {i \in DOMAIN tasks : cleared[a] # NotCleared /\ i > cleared[a].tasks /\ tasks[i].acct = a}

SyncsAfterClear(a) ==
  {r \in DOMAIN syncs : /\ cleared[a] # NotCleared /\ r > cleared[a].syncs
                        /\ syncs[r].todo # <<>> /\ Head(syncs[r].todo) = a}

C22_EnsureAuthorizedResult ==
  (js.pc = "done" /\ js.m \in EnsureMethods /\ js.requestIfNeeded /\ js.status # "none") =>
    /\ js.status = "authorized" => (js.result = "true" /\ js.authRequests = 0)
    /\ js.status = "notDetermined" =>
         /\ js.authRequests = 1
         /\ js.result = IF js.requestResult = "authorized" THEN "true" ELSE "false"
    /\ js.status \in {"denied", "unavailable"} =>
         (js.result = "false" /\ js.authRequests = 0)

\* C23: once the start and stop calls made so far have returned and every
\* accounts lookup has ended, isMonitoringTransactions() is true exactly when
\* the native monitor holds an account stream.
C23_FlagMatchesNativeMonitor ==
  (js.pc \in {"idle", "done"} /\ pendingStarts = {}) =>
    (isMonitoring <=> \E a \in Accounts : monitoringTasks[a] # 0)

\* C24: off iOS, startMonitoringTransactions rejects with code Unavailable and
\* with no other error.
C24_StartOffIosUnavailable ==
  (js.pc = "done" /\ js.m = "startMonitoringTransactions" /\ runtime.os # "ios") =>
    js.result = "Unavailable"

\* The events <<a + 1, ..., b>>.
Interval(a, b) == [k \in 1..(IF b > a THEN b - a ELSE 0) |-> a + k]

\* Where the events due to a registration end: the first of its unsubscribe
\* call and, if `removal` counts, of removeAllListeners; else the last dispatch.
DueUntil(sub, removal) ==
  LET ends == {e \in {sub.until} \cup (IF removal THEN {sub.removedAt} ELSE {}) : e # -1}
  IN IF ends = {} THEN emitter.dispatched ELSE CHOOSE e \in ends : \A f \in ends : e <= f

\* C25 as stated: a callback is invoked exactly once for each event dispatched
\* between its registration and the first call of its unsubscribe function,
\* and for no other event.
C25_InvokedUntilUnsubscribed ==
  \A i \in DOMAIN emitter.subscriptions :
    emitter.subscriptions[i].calls =
      Interval(emitter.subscriptions[i].from, DueUntil(emitter.subscriptions[i], FALSE))

\* C25, amended: a callback is invoked exactly once for each event dispatched
\* between its registration and the first of the call of its unsubscribe
\* function and a call of removeAllTransactionChangeListeners, and for no other
\* event; unsubscribing one listener takes nothing from the others.
C25_InvokedUntilUnsubscribedOrRemoved ==
  \A i \in DOMAIN emitter.subscriptions :
    emitter.subscriptions[i].calls =
      Interval(emitter.subscriptions[i].from, DueUntil(emitter.subscriptions[i], TRUE))

\* Two listeners, the first unsubscribed after one event (twice over), the
\* second still invoked with the next one.
C25_Witness ==
  /\ Len(emitter.subscriptions) = 2
  /\ emitter.subscriptions[1].until = 1
  /\ emitter.subscriptions[1].calls = <<1>>
  /\ emitter.subscriptions[2].until = -1
  /\ emitter.subscriptions[2].removedAt = -1
  /\ emitter.subscriptions[2].from = 0
  /\ emitter.subscriptions[2].calls = <<1, 2>>

\* A FinanceKitError of code Unauthorized, Unavailable or InvalidAccountId.
Final(error) ==
  /\ error.isError
  /\ error.code \in {"Unauthorized", "Unavailable", "InvalidAccountId"}

\* The attempts before the last all failed with an error that is retried.
EarlierAttemptsRetried ==
  \A k \in 1..(Len(retry.attempts) - 1) :
    retry.attempts[k] # Resolves /\ ~Final(retry.attempts[k])

LastAttempt == retry.attempts[Len(retry.attempts)]

\* How a finished call ended, given the attempts it made.
RetryOutcome ==
  /\ EarlierAttemptsRetried
  /\ \/ retry.result = "resolved" /\ LastAttempt = Resolves
     \/ /\ retry.result = "rejected" /\ LastAttempt # Resolves /\ retry.error = LastAttempt
        /\ Final(LastAttempt) \/ 2 * Len(retry.attempts) >= retry.maxRetries

\* C26 as stated: retry ends having invoked fn at most maxRetries times, with
\* the first success, or the first error that is not retried, or the error of
\* the last attempt after the maxRetries-th failure.
C26_AtMostMaxRetriesAttempts ==
  retry.pc = "done" =>
    /\ 2 * Len(retry.attempts) <= retry.maxRetries
    /\ retry.attempts # <<>>
    /\ RetryOutcome

\* C26, amended: fn is invoked fewer than maxRetries + 1 times (at most
\* maxRetries times when that is an integer); a call that made an attempt ends
\* with the first success, or the first error that is not retried, or the
\* error of the last attempt once the attempts are used up; with maxRetries
\* of 0 or less fn is not invoked and the call rejects with undefined.
C26_FewerThanMaxRetriesPlusOne ==
  /\ 2 * Len(retry.attempts) < retry.maxRetries + 2
  /\ retry.pc = "done" =>
       IF retry.attempts = <<>>
       THEN retry.maxRetries <= 0 /\ retry.result = "rejected" /\ retry.error = Undefined
       ELSE RetryOutcome

\* retry(fn, 3): two failures that are retried, then an Unauthorized error that
\* is rethrown at once.
C26_Witness ==
  /\ retry.pc = "done"
  /\ retry.maxRetries = 6
  /\ Len(retry.attempts) = 3
  /\ retry.waits = 2
  /\ retry.error = [isError |-> TRUE, code |-> "Unauthorized"]

\* C27: for each run of the background sync handler, setTaskCompleted is
\* called on the task at most once while the run goes on and exactly once when
\* it has ended: by the expiration handler or by the end of the sync, not both.
C27_TaskCompletedOnce ==
  \A r \in DOMAIN syncs :
    /\ Len(syncs[r].completed) <= 1
    /\ syncs[r].pc = "done" => Len(syncs[r].completed) = 1

\* C28: after startMonitoringTransactions was called with a list of account
\* ids that is not empty and has returned, every account the native monitor
\* holds a stream for is one of the ids supplied.
C28_MonitorsOnlySuppliedIds ==
  (js.pc = "done" /\ js.m = "startMonitoringTransactions" /\ js.result = "ok"
     /\ js.ids # <<>>) =>
    \A a \in Accounts : monitoringTasks[a] # 0 => a \in Range(js.ids)

\* C29: every pending change file the background sync has written and that
\* has not been deleted lies in the directory a drain pass resolves now, so
\* the next drain pass finds it, whatever calls of setAppGroupIdentifier and
\* startMonitoringTransactions came after the write.
C29_DrainFindsEveryPendingFile ==
  \A groupId \in {MainGroup, OtherGroup} :
    DOMAIN PendingChanges(groupId) # {} => ContainerURL(ResolvedGroup) = groupId

\* C30: requestAuthorization() and requestAuthorizationWithStatus() always
\* resolve, and with a result in which granted is true exactly when the
\* status is 'authorized'.
C30_RequestResultConsistent ==
  (js.pc = "done" /\ js.m \in RequestMethods) =>
    /\ js.result = "resolved"
    /\ js.granted <=> js.returnedStatus = "authorized"

====
